---- MODULE Spec2Model ----
(***************************************************************************)
(* Model of the text-difference pipeline of document_comparison.py:        *)
(* normalize, difference_summary, the percent-different computation of     *)
(* main, side_by_side_diff and unified_diff.  The alignment is the one     *)
(* difflib.SequenceMatcher computes (find_longest_match,                   *)
(* get_matching_blocks, get_opcodes, get_grouped_opcodes): with            *)
(* autojunk=False at lines 70-72 and 84-86, and with difflib's default     *)
(* autojunk=True inside difflib.unified_diff, called at line 62.           *)
(*                                                                         *)
(* Indices are 0-based and ranges half-open, as in the source; a TLA+      *)
(* sequence s holds Python's s[i] at s[i+1].                               *)
(***************************************************************************)
EXTENDS Integers, Sequences, FiniteSets, TLC

VARIABLES pc, a_lines, b_lines, opcodes, stats, total, changed, pct,
          rows, diff_text, text, norm, rejoined, renorm

vars == <<pc, a_lines, b_lines, opcodes, stats, total, changed, pct,
          rows, diff_text, text, norm, rejoined, renorm>>

\* ------------------------------------------------------------------ bounds
\* Longest line sequence enumerated exhaustively.
MaxLen == 5
\* Longest run of kept lines in the run-shaped inputs (a long equal span).
MaxRun == 8
\* Longest raw text enumerated for normalize.
MaxText == 5
\* Longest left sequence compared with a right sequence of about 200 lines.
MaxBigLeft == 2

\* Normalized lines the exhaustive inputs are built from.
Lines == {"a", "b"}
\* A third line, used only around the long runs.
EdgeLines == {"b", "c"}

Max(x, y) == IF x >= y THEN x ELSE y
Min(x, y) == IF x <= y THEN x ELSE y

SeqsUpTo(S, n) == UNION {[1..k -> S] : k \in 0..n}

Rep(x, k) == [n \in 1..k |-> x]

\* ------------------------------------------------- difflib.SequenceMatcher
\* Lines of b that __chain_b leaves out of b2j as "popular": with autojunk
\* and at least 200 lines in b, those occurring more than len(b) // 100 + 1
\* times.
AutojunkMin == 200

bpopular(b, autojunk) ==
    IF autojunk /\ Len(b) >= AutojunkMin
    THEN {x \in {b[k] : k \in 1..Len(b)} :
            Cardinality({k \in 1..Len(b) : b[k] = x}) > (Len(b) \div 100) + 1}
    ELSE {}

\* j2len[j] of find_longest_match while row i is processed: the length of the
\* common run ending at a[i], b[j] inside the window (0 when j is not in
\* b2j[a[i]]: a[i] # b[j], or the line is popular).
RECURSIVE j2len(_, _, _, _, _, _, _)
j2len(a, b, popular, alo, blo, i, j) ==
    IF a[i + 1] # b[j + 1] \/ b[j + 1] \in popular THEN 0
    ELSE IF i > alo /\ j > blo THEN j2len(a, b, popular, alo, blo, i - 1, j - 1) + 1
    ELSE 1

\* One pass of the inner loop of find_longest_match, row i: j ascending, best
\* replaced only by a strictly longer run, so the row changes best only if
\* its longest run beats it, and then to the first j that reaches that length.
scan_row(a, b, popular, alo, blo, bhi, i, best) ==
    LET ks == [j \in blo..(bhi - 1) |-> j2len(a, b, popular, alo, blo, i, j)]
        top == CHOOSE k \in {ks[j] : j \in blo..(bhi - 1)} \cup {0} :
                  \A j \in blo..(bhi - 1) : ks[j] <= k
    IN  IF top > best[3]
        THEN LET j == CHOOSE j1 \in blo..(bhi - 1) :
                         /\ ks[j1] = top
                         /\ \A j2 \in blo..(j1 - 1) : ks[j2] # top
             IN  <<i - top + 1, j - top + 1, top>>
        ELSE best

\* The outer loop of find_longest_match: i ascending.
RECURSIVE scan_matches(_, _, _, _, _, _, _, _, _)
scan_matches(a, b, popular, alo, ahi, blo, bhi, i, best) ==
    IF i >= ahi THEN best
    ELSE scan_matches(a, b, popular, alo, ahi, blo, bhi, i + 1,
                      scan_row(a, b, popular, alo, blo, bhi, i, best))

\* The extension loops test the lines themselves, not b2j, so they also run
\* over popular lines (no line is junk: isjunk is None).
\* "while besti > alo and bestj > blo and a[besti-1] == b[bestj-1]"
RECURSIVE extend_back(_, _, _, _, _)
extend_back(a, b, alo, blo, m) ==
    IF m[1] > alo /\ m[2] > blo /\ a[m[1]] = b[m[2]]
    THEN extend_back(a, b, alo, blo, <<m[1] - 1, m[2] - 1, m[3] + 1>>)
    ELSE m

\* "while besti+bestsize < ahi and bestj+bestsize < bhi and a[..] == b[..]"
RECURSIVE extend_fwd(_, _, _, _, _)
extend_fwd(a, b, ahi, bhi, m) ==
    IF m[1] + m[3] < ahi /\ m[2] + m[3] < bhi
       /\ a[m[1] + m[3] + 1] = b[m[2] + m[3] + 1]
    THEN extend_fwd(a, b, ahi, bhi, <<m[1], m[2], m[3] + 1>>)
    ELSE m

\* A find_longest_match that settles for the first common line it meets.
find_first_match(a, b, popular, alo, ahi, blo, bhi) ==
    LET cells == {c \in (alo..(ahi - 1)) \X (blo..(bhi - 1)) :
                    j2len(a, b, popular, alo, blo, c[1], c[2]) > 0}
    IN  IF cells = {} THEN <<alo, blo, 0>>
        ELSE LET c == CHOOSE c1 \in cells :
                        \A c2 \in cells :
                            c1[1] < c2[1] \/ (c1[1] = c2[1] /\ c1[2] <= c2[2])
             IN  <<c[1], c[2], 1>>

\* find_longest_match(alo, ahi, blo, bhi): <<i, j, k>>.  No line is junk
\* (isjunk is None); popular holds the lines autojunk left out of b2j.
find_longest_match(a, b, popular, alo, ahi, blo, bhi) ==
    extend_fwd(a, b, ahi, bhi,
        extend_back(a, b, alo, blo,
            scan_matches(a, b, popular, alo, ahi, blo, bhi, alo,
                         <<alo, blo, 0>>)))

\* The work-list loop of get_matching_blocks followed by its sort(): the
\* blocks found left of a match all precede it and those found right of it
\* all follow it, so the sorted list is the in-order one.
RECURSIVE match_blocks(_, _, _, _, _, _, _)
match_blocks(a, b, popular, alo, ahi, blo, bhi) ==
    LET x == find_longest_match(a, b, popular, alo, ahi, blo, bhi)
        i == x[1]
        j == x[2]
        k == x[3]
    IN  IF k = 0 THEN <<>>
        ELSE (IF alo < i /\ blo < j
              THEN match_blocks(a, b, popular, alo, i, blo, j) ELSE <<>>)
             \o <<x>>
             \o (IF i + k < ahi /\ j + k < bhi
                 THEN match_blocks(a, b, popular, i + k, ahi, j + k, bhi) ELSE <<>>)

\* The loop of get_matching_blocks that merges adjacent blocks; cur is
\* (i1, j1, k1), out is non_adjacent.
RECURSIVE collapse(_, _, _, _)
collapse(blocks, n, cur, out) ==
    IF n > Len(blocks)
    THEN IF cur[3] # 0 THEN Append(out, cur) ELSE out
    ELSE LET x == blocks[n]
         IN  IF cur[1] + cur[3] = x[1] /\ cur[2] + cur[3] = x[2]
             THEN collapse(blocks, n + 1, <<cur[1], cur[2], cur[3] + x[3]>>, out)
             ELSE collapse(blocks, n + 1, x,
                           IF cur[3] # 0 THEN Append(out, cur) ELSE out)

\* A get_matching_blocks without the closing sentinel.
get_matching_blocks_no_sentinel(a, b, autojunk) ==
    collapse(match_blocks(a, b, bpopular(b, autojunk), 0, Len(a), 0, Len(b)),
             1, <<0, 0, 0>>, <<>>)

\* get_matching_blocks(): the merged blocks and the sentinel (la, lb, 0).
get_matching_blocks(a, b, autojunk) ==
    Append(collapse(match_blocks(a, b, bpopular(b, autojunk), 0, Len(a), 0, Len(b)),
                    1, <<0, 0, 0>>, <<>>),
           <<Len(a), Len(b), 0>>)

Opcode(tag, i1, i2, j1, j2) ==
    [tag |-> tag, i1 |-> i1, i2 |-> i2, j1 |-> j1, j2 |-> j2]

\* The loop of get_opcodes over the matching blocks; i, j are its cursor.
RECURSIVE opcodes_from(_, _, _, _, _)
opcodes_from(blocks, n, i, j, answer) ==
    IF n > Len(blocks) THEN answer
    ELSE LET ai == blocks[n][1]
             bj == blocks[n][2]
             size == blocks[n][3]
             tag == IF i < ai /\ j < bj THEN "replace"
                    ELSE IF i < ai THEN "delete"
                    ELSE IF j < bj THEN "insert"
                    ELSE ""
             gap == IF tag # "" THEN Append(answer, Opcode(tag, i, ai, j, bj))
                    ELSE answer
             both == IF size # 0
                     THEN Append(gap, Opcode("equal", ai, ai + size, bj, bj + size))
                     ELSE gap
         IN  opcodes_from(blocks, n + 1, ai + size, bj + size, both)

\* A get_opcodes that leaves the equal spans out.
get_opcodes_changes_only(a, b) ==
    SelectSeq(opcodes_from(get_matching_blocks(a, b, FALSE), 1, 0, 0, <<>>),
              LAMBDA op : op.tag # "equal")

\* A get_opcodes that labels the one-sided gaps the wrong way round.
get_opcodes_swapped(a, b) ==
    LET ops == opcodes_from(get_matching_blocks(a, b, FALSE), 1, 0, 0, <<>>)
    IN  [k \in 1..Len(ops) |->
            [ops[k] EXCEPT !.tag = IF @ = "delete" THEN "insert"
                                   ELSE IF @ = "insert" THEN "delete" ELSE @]]

\* SequenceMatcher(a=a, b=b, autojunk=False).get_opcodes()
get_opcodes(a, b) == opcodes_from(get_matching_blocks(a, b, FALSE), 1, 0, 0, <<>>)

\* SequenceMatcher(None, a, b).get_opcodes(): the matcher difflib.unified_diff
\* builds, autojunk left at its default True.
get_opcodes_autojunk(a, b) ==
    opcodes_from(get_matching_blocks(a, b, TRUE), 1, 0, 0, <<>>)

\* --------------------------------------------------- document_comparison.py
\* a_lines[i1:i2]
Slice(s, i1, i2) == SubSeq(s, i1 + 1, i2)

\* A span_rows that stops at the end of the shorter block.
span_rows_short(a, b, op) ==
    LET left_block == Slice(a, op.i1, op.i2)
        right_block == Slice(b, op.j1, op.j2)
    IN  [k \in 1..Min(Len(left_block), Len(right_block)) |->
            <<op.tag, left_block[k], right_block[k]>>]

\* The rows one opcode adds in side_by_side_diff.
span_rows(a, b, op) ==
    LET left_block == Slice(a, op.i1, op.i2)
        right_block == Slice(b, op.j1, op.j2)
        m == Max(Len(left_block), Len(right_block))
        max_len == IF m # 0 THEN m ELSE 1
    IN  [k \in 1..max_len |->
            <<op.tag,
              IF k <= Len(left_block) THEN left_block[k] ELSE "",
              IF k <= Len(right_block) THEN right_block[k] ELSE "">>]

RECURSIVE rows_from(_, _, _, _)
rows_from(a, b, ops, n) ==
    IF n > Len(ops) THEN <<>>
    ELSE span_rows(a, b, ops[n]) \o rows_from(a, b, ops, n + 1)

side_by_side_diff(a, b) == rows_from(a, b, get_opcodes(a, b), 1)

RECURSIVE stats_from(_, _, _)
stats_from(ops, n, st) ==
    IF n > Len(ops) THEN st
    ELSE LET op == ops[n]
             nst == IF op.tag = "equal"
                    THEN [st EXCEPT !.equal = @ + (op.i2 - op.i1)]
                    ELSE IF op.tag = "replace"
                    THEN [st EXCEPT !.replace = @ + Max(op.i2 - op.i1, op.j2 - op.j1)]
                    ELSE IF op.tag = "delete"
                    THEN [st EXCEPT !.delete = @ + (op.i2 - op.i1)]
                    ELSE IF op.tag = "insert"
                    THEN [st EXCEPT !.insert = @ + (op.j2 - op.j1)]
                    ELSE st
         IN  stats_from(ops, n + 1, nst)

NoStats == [equal |-> 0, replace |-> 0, delete |-> 0, insert |-> 0]

difference_summary(base, other) == stats_from(get_opcodes(base, other), 1, NoStats)

\* sum(stats.values())
stats_sum(st) == st.equal + st.replace + st.delete + st.insert

\* ---------------------------------------------------- difflib.unified_diff
\* Lines of context around a change: unified_diff is called without n, so
\* difflib's default applies.
ContextN == 3

\* The two adjustments get_grouped_opcodes makes before its loop: an empty
\* opcode list becomes one dummy equal opcode, a leading equal opcode keeps
\* its last n lines and a trailing one its first n.
trim_ends(codes0, n) ==
    LET codes == IF codes0 = <<>> THEN <<Opcode("equal", 0, 1, 0, 1)>> ELSE codes0
        f == codes[1]
        c1 == IF f.tag = "equal"
              THEN [codes EXCEPT ![1] =
                      Opcode(f.tag, Max(f.i1, f.i2 - n), f.i2, Max(f.j1, f.j2 - n), f.j2)]
              ELSE codes
        l == c1[Len(c1)]
    IN  IF l.tag = "equal"
        THEN [c1 EXCEPT ![Len(c1)] =
                Opcode(l.tag, l.i1, Min(l.i2, l.i1 + n), l.j1, Min(l.j2, l.j1 + n))]
        ELSE c1

\* The loop of get_grouped_opcodes and the final yield.
RECURSIVE group_from(_, _, _, _, _)
group_from(codes, k, n, group, groups) ==
    IF k > Len(codes)
    THEN IF group # <<>> /\ ~(Len(group) = 1 /\ group[1].tag = "equal")
         THEN Append(groups, group)
         ELSE groups
    ELSE LET c == codes[k]
         IN  IF c.tag = "equal" /\ c.i2 - c.i1 > n + n
             THEN group_from(codes, k + 1, n,
                     <<Opcode(c.tag, Max(c.i1, c.i2 - n), c.i2,
                              Max(c.j1, c.j2 - n), c.j2)>>,
                     Append(groups,
                            Append(group,
                                   Opcode(c.tag, c.i1, Min(c.i2, c.i1 + n),
                                          c.j1, Min(c.j2, c.j1 + n)))))
             ELSE group_from(codes, k + 1, n, Append(group, c), groups)

\* A get_grouped_opcodes that keeps one line of context too many.
get_grouped_opcodes_wide(a, b, n) ==
    group_from(trim_ends(get_opcodes_autojunk(a, b), n + 1), 1, n + 1, <<>>, <<>>)

\* SequenceMatcher(None, a, b).get_grouped_opcodes(n)
get_grouped_opcodes(a, b, n) ==
    group_from(trim_ends(get_opcodes_autojunk(a, b), n), 1, n, <<>>, <<>>)

\* _format_range_unified(start, stop)
format_range_unified(start, stop) ==
    LET length == stop - start
    IN  IF length = 1 THEN ToString(start + 1)
        ELSE ToString(IF length = 0 THEN start ELSE start + 1)
             \o "," \o ToString(length)

\* An output line is prefix \o text, kept in two parts.
OutLine(prefix, line) == [prefix |-> prefix, text |-> line]

Prefixed(prefix, ls) == [k \in 1..Len(ls) |-> OutLine(prefix, ls[k])]

\* The lines unified_diff yields for one opcode of a group.
opcode_lines(a, b, op) ==
    IF op.tag = "equal" THEN Prefixed(" ", Slice(a, op.i1, op.i2))
    ELSE (IF op.tag \in {"replace", "delete"}
          THEN Prefixed("-", Slice(a, op.i1, op.i2)) ELSE <<>>)
         \o (IF op.tag \in {"replace", "insert"}
             THEN Prefixed("+", Slice(b, op.j1, op.j2)) ELSE <<>>)

RECURSIVE group_lines(_, _, _, _)
group_lines(a, b, group, k) ==
    IF k > Len(group) THEN <<>>
    ELSE opcode_lines(a, b, group[k]) \o group_lines(a, b, group, k + 1)

\* The "@@ -r1 +r2 @@" line of a group.
hunk_header(group) ==
    LET first == group[1]
        last == group[Len(group)]
    IN  OutLine("@@ ", "-" \o format_range_unified(first.i1, last.i2)
                       \o " +" \o format_range_unified(first.j1, last.j2)
                       \o " @@")

RECURSIVE hunks_from(_, _, _, _)
hunks_from(a, b, groups, k) ==
    IF k > Len(groups) THEN <<>>
    ELSE <<hunk_header(groups[k])>> \o group_lines(a, b, groups[k], 1)
         \o hunks_from(a, b, groups, k + 1)

\* unified_diff(a_lines, b_lines, a_name, b_name): the lines that are joined
\* by "\n"; no line at all when there is no group.
unified_diff(a, b, a_name, b_name) ==
    LET groups == get_grouped_opcodes(a, b, ContextN)
    IN  IF groups = <<>> THEN <<>>
        ELSE <<OutLine("--- ", a_name), OutLine("+++ ", b_name)>>
             \o hunks_from(a, b, groups, 1)

\* ---------------------------------------------------------------- normalize
\* Characters of the raw texts: two letters that differ in case only, and
\* white space of each kind (blank, tab, and the line boundaries LF, CR, FF;
\* load_pdf_text joins pages with FF).
Chars == {"a", "A", " ", "\t", "\n", "\r", "\f"}

\* What str.splitlines splits on, among Chars.
LineBreaks == {"\n", "\r", "\f"}

\* What str.strip() and str.split() take for white space, among Chars.
Whitespace == {" ", "\t", "\n", "\r", "\f"}

\* str.lower on one character.
lower_char(c) == IF c = "A" THEN "a" ELSE c

\* A lower that leaves the case alone.
lower_missing(s) == s

\* str.swapcase in the place of str.lower.
swapcase(s) ==
    [k \in 1..Len(s) |-> IF s[k] = "A" THEN "a" ELSE IF s[k] = "a" THEN "A" ELSE s[k]]

lower(s) == [k \in 1..Len(s) |-> lower_char(s[k])]

\* text.splitlines(): "\r\n" is one boundary, and no empty last line follows
\* a final boundary.
RECURSIVE splitlines_from(_, _, _)
splitlines_from(t, n, cur) ==
    IF n > Len(t) THEN (IF cur # <<>> THEN <<cur>> ELSE <<>>)
    ELSE IF t[n] \in LineBreaks
    THEN <<cur>> \o splitlines_from(t,
                        IF t[n] = "\r" /\ n < Len(t) /\ t[n + 1] = "\n"
                        THEN n + 2 ELSE n + 1,
                        <<>>)
    ELSE splitlines_from(t, n + 1, Append(cur, t[n]))

splitlines(t) == splitlines_from(t, 1, <<>>)

RECURSIVE lstrip(_)
lstrip(s) == IF s # <<>> /\ s[1] \in Whitespace THEN lstrip(Tail(s)) ELSE s

RECURSIVE rstrip(_)
rstrip(s) ==
    IF s # <<>> /\ s[Len(s)] \in Whitespace
    THEN rstrip(SubSeq(s, 1, Len(s) - 1)) ELSE s

\* raw.strip()
strip(s) == rstrip(lstrip(s))

\* s.split(): the maximal runs of characters that are not white space.
RECURSIVE split_from(_, _, _)
split_from(s, n, cur) ==
    IF n > Len(s) THEN (IF cur # <<>> THEN <<cur>> ELSE <<>>)
    ELSE IF s[n] \in Whitespace
    THEN (IF cur # <<>> THEN <<cur>> ELSE <<>>) \o split_from(s, n + 1, <<>>)
    ELSE split_from(s, n + 1, Append(cur, s[n]))

split(s) == split_from(s, 1, <<>>)

\* sep.join(parts)
RECURSIVE join(_, _)
join(sep, parts) ==
    IF parts = <<>> THEN <<>>
    ELSE IF Len(parts) = 1 THEN parts[1]
    ELSE parts[1] \o sep \o join(sep, Tail(parts))

\* The loop of normalize over the raw lines.
RECURSIVE normalize_from(_, _)
normalize_from(raws, n) ==
    IF n > Len(raws) THEN <<>>
    ELSE LET s == join(<<" ">>, split(strip(raws[n])))
         IN  (IF s # <<>> THEN <<lower(s)>> ELSE <<>>)
             \o normalize_from(raws, n + 1)

normalize(t) == normalize_from(splitlines(t), 1)

\* ------------------------------------------------------------ state machine
Run(p, k, s) == p \o Rep("a", k) \o s

Edges == {<<>>} \cup {<<x>> : x \in EdgeLines}

LongSeqs == {Run(p, k, s) : p \in Edges, k \in (MaxLen + 1)..MaxRun, s \in Edges}

ShortSeqs == SeqsUpTo(Lines, MaxLen)

\* Right sequences just below and from difflib's autojunk threshold on
\* (199 to 202 lines), nearly all of them the one line "a".
BigSeqs ==
    {Run(p, k, s) : p \in Edges, k \in (AutojunkMin - 1)..AutojunkMin, s \in Edges}

Inputs ==
    (ShortSeqs \X ShortSeqs) \cup (LongSeqs \X LongSeqs)
    \cup (SeqsUpTo(Lines, MaxBigLeft) \X BigSeqs)

NoPct == [num |-> 0, den |-> 1]

Init ==
    /\ pc = "loaded"
    /\ \E in \in Inputs : a_lines = in[1] /\ b_lines = in[2]
    /\ opcodes = <<>>
    /\ stats = NoStats
    /\ total = 0
    /\ changed = 0
    /\ pct = NoPct
    /\ rows = <<>>
    /\ diff_text = <<>>
    /\ text = <<>>
    /\ norm = <<>>
    /\ rejoined = <<>>
    /\ renorm = <<>>

\* main, line 183: stats = difference_summary(base_norm, normalize(raw))
Summarize ==
    /\ pc = "loaded"
    /\ opcodes' = get_opcodes(a_lines, b_lines)
    /\ stats' = difference_summary(a_lines, b_lines)
    /\ pc' = "summarized"
    /\ UNCHANGED <<a_lines, b_lines, total, changed, pct, rows, diff_text,
                   text, norm, rejoined, renorm>>

\* main, lines 184-186; pct is the exact quotient num / den.
Percent ==
    /\ pc = "summarized"
    /\ LET t == IF stats_sum(stats) # 0 THEN stats_sum(stats) ELSE 1
           c == t - stats.equal
       IN  /\ total' = t
           /\ changed' = c
           /\ pct' = [num |-> 100 * c, den |-> t]
    /\ pc' = "reported"
    /\ UNCHANGED <<a_lines, b_lines, opcodes, stats, rows, diff_text,
                   text, norm, rejoined, renorm>>

\* main, lines 207-209: the side-by-side view.
SideBySide ==
    /\ pc = "reported"
    /\ opcodes' = get_opcodes(a_lines, b_lines)
    /\ rows' = side_by_side_diff(a_lines, b_lines)
    /\ pc' = "side_by_side"
    /\ UNCHANGED <<a_lines, b_lines, stats, total, changed, pct, diff_text,
                   text, norm, rejoined, renorm>>

\* Labels of the two documents in the unified form.
base_doc == "base.pdf"
target == "target.pdf"

\* main, lines 204-206: the unified view.
Unified ==
    /\ pc = "reported"
    /\ diff_text' = unified_diff(a_lines, b_lines, base_doc, target)
    /\ pc' = "unified"
    /\ UNCHANGED <<a_lines, b_lines, opcodes, stats, total, changed, pct, rows,
                   text, norm, rejoined, renorm>>

Next == Summarize \/ Percent \/ SideBySide \/ Unified

Spec == Init /\ [][Next]_vars

\* ------------------------------------------- normalize and its round trip
Texts == SeqsUpTo(Chars, MaxText)

InitNorm ==
    /\ pc = "raw"
    /\ text \in Texts
    /\ norm = <<>>
    /\ rejoined = <<>>
    /\ renorm = <<>>
    /\ a_lines = <<>>
    /\ b_lines = <<>>
    /\ opcodes = <<>>
    /\ stats = NoStats
    /\ total = 0
    /\ changed = 0
    /\ pct = NoPct
    /\ rows = <<>>
    /\ diff_text = <<>>

diff_vars == <<a_lines, b_lines, opcodes, stats, total, changed, pct, rows,
               diff_text>>

\* main, lines 176, 183, 202: normalize(texts[...])
Normalize ==
    /\ pc = "raw"
    /\ norm' = normalize(text)
    /\ pc' = "normalized"
    /\ UNCHANGED <<text, rejoined, renorm, diff_vars>>

\* "\n".join(normalize(t))
Rejoin ==
    /\ pc = "normalized"
    /\ rejoined' = join(<<"\n">>, norm)
    /\ pc' = "rejoined"
    /\ UNCHANGED <<text, norm, renorm, diff_vars>>

\* normalize applied to the rejoined text
Renormalize ==
    /\ pc = "rejoined"
    /\ renorm' = normalize(rejoined)
    /\ pc' = "renormalized"
    /\ UNCHANGED <<text, norm, rejoined, diff_vars>>

NextNorm == Normalize \/ Rejoin \/ Renormalize

SpecNorm == InitNorm /\ [][NextNorm]_vars

\* ------------------------------------------------------------------ claims
\* The states in which the alignment of a_lines and b_lines has been computed.
Aligned == pc \in {"summarized", "reported", "side_by_side", "unified"}

LenA == Len(a_lines)
LenB == Len(b_lines)

LeftLen(op) == op.i2 - op.i1
RightLen(op) == op.j2 - op.j1

\* Row i of the longest-common-subsequence table of a and b, from row i - 1
\* (prev): entry j is the length of a longest common subsequence of the
\* first i lines of a and the first j lines of b.  Either a[i] is left out
\* (prev[j]) or it is paired with its last occurrence in b[1..j].
LCSNext(a, b, i, prev) ==
    [j \in 1..Len(b) |->
        LET hits == {m \in 1..j : b[m] = a[i]}
        IN  IF hits = {} THEN prev[j]
            ELSE LET last == CHOOSE m \in hits : \A m2 \in hits : m2 <= m
                 IN  Max(prev[j], (IF last = 1 THEN 0 ELSE prev[last - 1]) + 1)]

RECURSIVE LCSRow(_, _, _)
LCSRow(a, b, i) ==
    IF i = 0 THEN [j \in 1..Len(b) |-> 0]
    ELSE LCSNext(a, b, i, LCSRow(a, b, i - 1))

\* Length of a longest common subsequence of a and b.
LCS(a, b) == IF Len(b) = 0 THEN 0 ELSE LCSRow(a, b, Len(a))[Len(b)]

\* Length of a longest block of consecutive lines common to a and b.
LongestCommonBlock(a, b) ==
    LET sizes == {k \in 0..Min(Len(a), Len(b)) :
                    \E i \in 0..(Len(a) - k), j \in 0..(Len(b) - k) :
                        \A d \in 1..k : a[i + d] = b[j + d]}
    IN  CHOOSE k \in sizes : \A m \in sizes : m <= k

\* C1: the spans partition both sequences: the first starts at (0,0), each
\* starts where the one before it ended, the last ends at (len A, len B),
\* and there is no span only when both sequences are empty.
C1_Partition ==
    Aligned =>
        /\ (opcodes = <<>>) => (LenA = 0 /\ LenB = 0)
        /\ (opcodes # <<>>) =>
             /\ opcodes[1].i1 = 0 /\ opcodes[1].j1 = 0
             /\ opcodes[Len(opcodes)].i2 = LenA
             /\ opcodes[Len(opcodes)].j2 = LenB
        /\ \A k \in 1..Len(opcodes) :
             /\ opcodes[k].i1 <= opcodes[k].i2
             /\ opcodes[k].j1 <= opcodes[k].j2
        /\ \A k \in 1..(Len(opcodes) - 1) :
             /\ opcodes[k + 1].i1 = opcodes[k].i2
             /\ opcodes[k + 1].j1 = opcodes[k].j2

C1_Witness ==
    /\ pc = "side_by_side"
    /\ Len(opcodes) >= 4
    /\ \E k \in 1..Len(opcodes) : opcodes[k].tag = "replace"

\* C2: a sequence compared with itself (the empty one included) gives one
\* span, "equal", covering it all; equal = len(A) and the other counts 0;
\* percent-different 0.
C2_SelfComparison ==
    (pc = "reported" /\ a_lines = b_lines) =>
        /\ opcodes = <<Opcode("equal", 0, LenA, 0, LenA)>>
        /\ stats = [equal |-> LenA, replace |-> 0, delete |-> 0, insert |-> 0]
        /\ pct.num = 0

\* C3: percent-different is 100 * (replace + delete + insert) over
\* max(1, equal + replace + delete + insert), lies in [0, 100], and is 0 when
\* both sequences are empty.
C3_PercentFormula ==
    pc = "reported" =>
        LET num == 100 * (stats.replace + stats.delete + stats.insert)
            den == Max(1, stats_sum(stats))
        IN  /\ pct.num * den = num * pct.den
            /\ 0 <= pct.num /\ pct.num <= 100 * pct.den
            /\ (LenA = 0 /\ LenB = 0) => pct.num = 0

\* C4 as stated: the equal count is the length of a longest common
\* subsequence.
C4_EqualIsLCS ==
    Aligned => stats.equal = LCS(a_lines, b_lines)

\* C4 as amended: the equal count is at most the length of a longest common
\* subsequence and at least the length of a longest common block of
\* consecutive lines.
C4_EqualBounds ==
    Aligned =>
        /\ stats.equal <= LCS(a_lines, b_lines)
        /\ stats.equal >= LongestCommonBlock(a_lines, b_lines)

C4_Witness ==
    /\ pc = "summarized"
    /\ stats.equal < LCS(a_lines, b_lines)
    /\ stats.equal >= 2

\* C5: an empty A against a non-empty B is one "insert" span over all of B,
\* a non-empty A against an empty B one "delete" span over all of A, each
\* with that count alone in the summary; two empty sequences give no span
\* and side_by_side_diff no row.
C5_Degenerate ==
    Aligned =>
        /\ (LenA = 0 /\ LenB > 0) =>
             /\ opcodes = <<Opcode("insert", 0, 0, 0, LenB)>>
             /\ stats = [equal |-> 0, replace |-> 0, delete |-> 0, insert |-> LenB]
        /\ (LenA > 0 /\ LenB = 0) =>
             /\ opcodes = <<Opcode("delete", 0, LenA, 0, 0)>>
             /\ stats = [equal |-> 0, replace |-> 0, delete |-> LenA, insert |-> 0]
        /\ (LenA = 0 /\ LenB = 0) =>
             /\ opcodes = <<>>
             /\ stats = NoStats
             /\ pc = "side_by_side" => rows = <<>>

C5_Witness ==
    /\ pc = "side_by_side"
    /\ LenA = 0
    /\ LenB >= 2
    /\ Len(rows) = LenB

\* Rows side_by_side_diff has emitted before span k.
RECURSIVE RowsBefore(_)
RowsBefore(k) ==
    IF k <= 1 THEN 0
    ELSE RowsBefore(k - 1) + Max(LeftLen(opcodes[k - 1]), RightLen(opcodes[k - 1]))

\* C8: each span gives max(left length, right length) rows with its tag, in
\* span order; row d of a span pairs the d-th left line with the d-th right
\* line, "" standing for the side that has run out.
C8_Rows ==
    pc = "side_by_side" =>
        /\ Len(rows) = RowsBefore(Len(opcodes) + 1)
        /\ \A k \in 1..Len(opcodes) :
             \A d \in 1..Max(LeftLen(opcodes[k]), RightLen(opcodes[k])) :
                rows[RowsBefore(k) + d] =
                    <<opcodes[k].tag,
                      IF d <= LeftLen(opcodes[k])
                      THEN a_lines[opcodes[k].i1 + d] ELSE "",
                      IF d <= RightLen(opcodes[k])
                      THEN b_lines[opcodes[k].j1 + d] ELSE "">>

C8_Witness ==
    /\ pc = "side_by_side"
    /\ \E k \in 1..Len(opcodes) :
          /\ opcodes[k].tag = "replace"
          /\ LeftLen(opcodes[k]) < RightLen(opcodes[k])
    /\ \E k \in 1..Len(opcodes) :
          /\ opcodes[k].tag = "replace"
          /\ LeftLen(opcodes[k]) > RightLen(opcodes[k])

\* C10: every span is well-formed for its tag (equal: ranges of one non-zero
\* length holding the same lines; delete: left only; insert: right only;
\* replace: both non-empty), no two consecutive spans carry the same tag, and
\* no row of side_by_side_diff is empty on both sides.
C10_WellFormed ==
    Aligned =>
        /\ \A k \in 1..Len(opcodes) :
             LET op == opcodes[k]
             IN  /\ op.tag \in {"equal", "replace", "delete", "insert"}
                 /\ op.tag = "equal" =>
                      /\ LeftLen(op) = RightLen(op)
                      /\ LeftLen(op) > 0
                      /\ \A d \in 1..LeftLen(op) :
                            a_lines[op.i1 + d] = b_lines[op.j1 + d]
                 /\ op.tag = "delete" => (LeftLen(op) > 0 /\ RightLen(op) = 0)
                 /\ op.tag = "insert" => (LeftLen(op) = 0 /\ RightLen(op) > 0)
                 /\ op.tag = "replace" => (LeftLen(op) > 0 /\ RightLen(op) > 0)
        /\ \A k \in 1..(Len(opcodes) - 1) : opcodes[k].tag # opcodes[k + 1].tag
        /\ pc = "side_by_side" =>
             \A r \in 1..Len(rows) : rows[r][2] # "" \/ rows[r][3] # ""

C10_Witness ==
    /\ pc = "side_by_side"
    /\ Len(opcodes) >= 4
    /\ Cardinality({opcodes[k].tag : k \in 1..Len(opcodes)}) >= 3
    /\ \E r \in 1..Len(rows) : rows[r][2] = ""
    /\ \E r \in 1..Len(rows) : rows[r][3] = ""

\* The index in a_lines of the context line at position n of the unified
\* form out: its hunk, the h-th, starts at the first left index of group h,
\* and every context or removed line before it in the hunk moves one line
\* down a_lines.
ContextIndex(out, groups, n) ==
    LET heads == {m \in 1..n : out[m].prefix = "@@ "}
        head == CHOOSE m \in heads : \A m2 \in heads : m2 <= m
    IN  groups[Cardinality(heads)][1].i1
        + Cardinality({m \in (head + 1)..(n - 1) : out[m].prefix \in {" ", "-"}})

\* Position in diff_text |-> index in a_lines, for the context lines.
ContextOfDiff ==
    LET groups == get_grouped_opcodes(a_lines, b_lines, ContextN)
    IN  [n \in {m \in 1..Len(diff_text) : diff_text[m].prefix = " "} |->
            ContextIndex(diff_text, groups, n)]

\* How many of the context lines ctx come from span op.
ContextCount(ctx, op) ==
    Cardinality({n \in DOMAIN ctx : ctx[n] >= op.i1 /\ ctx[n] < op.i2})

\* C9 as stated: for differing sequences, every "equal" span has as many
\* context lines in the unified form as it has lines, whatever its length.
C9_AllContextKept ==
    (pc = "unified" /\ a_lines # b_lines) =>
        LET ctx == ContextOfDiff
        IN  \A k \in 1..Len(opcodes) :
                opcodes[k].tag = "equal" =>
                    ContextCount(ctx, opcodes[k]) = LeftLen(opcodes[k])

\* C9 as amended: unified_diff aligns the sequences itself, with difflib's
\* default matcher, whose spans are those of side_by_side_diff whenever B has
\* fewer than 200 lines.  For differing sequences, an "equal" span of that
\* alignment has min(length, 3) context lines when it opens or closes the
\* alignment and min(length, 6) otherwise; no kept line appears twice.
C9_ContextTrimmed ==
    (pc = "unified" /\ a_lines # b_lines) =>
        LET ctx == ContextOfDiff
            own == get_opcodes_autojunk(a_lines, b_lines)
        IN  /\ LenB < AutojunkMin => own = opcodes
            /\ \A k \in 1..Len(own) :
                 own[k].tag = "equal" =>
                    ContextCount(ctx, own[k]) =
                        IF k = 1 \/ k = Len(own)
                        THEN Min(LeftLen(own[k]), ContextN)
                        ELSE Min(LeftLen(own[k]), 2 * ContextN)
            /\ \A m, n \in DOMAIN ctx : ctx[m] = ctx[n] => m = n
            /\ \A n \in DOMAIN ctx : diff_text[n].text = a_lines[ctx[n] + 1]

C9_Witness ==
    /\ pc = "unified"
    /\ Cardinality({n \in 1..Len(diff_text) : diff_text[n].prefix = "@@ "}) = 2
    /\ LET ctx == ContextOfDiff
       IN  \E k \in 2..(Len(opcodes) - 1) :
              /\ opcodes[k].tag = "equal"
              /\ LeftLen(opcodes[k]) > 2 * ContextN
              /\ ContextCount(ctx, opcodes[k]) = 2 * ContextN

\* The lines of raw text t as <<first, last>> positions: the maximal
\* stretches of t that hold no line boundary.
LineSpans(t) ==
    {sp \in (1..Len(t)) \X (1..Len(t)) :
        /\ sp[1] <= sp[2]
        /\ \A p \in sp[1]..sp[2] : t[p] \notin LineBreaks
        /\ sp[1] = 1 \/ t[sp[1] - 1] \in LineBreaks
        /\ sp[2] = Len(t) \/ t[sp[2] + 1] \in LineBreaks}

\* The lines that hold something other than white space.
NonBlankSpans(t) ==
    {sp \in LineSpans(t) : \E p \in sp[1]..sp[2] : t[p] \notin Whitespace}

\* The positions of a line that survive: every character that is not white
\* space, and the first white space after one if more of the line follows.
KeptPositions(t, sp) ==
    {p \in sp[1]..sp[2] :
        \/ t[p] \notin Whitespace
        \/ /\ p > sp[1]
           /\ t[p - 1] \notin Whitespace
           /\ \E q \in (p + 1)..sp[2] : t[q] \notin Whitespace}

\* The n-th smallest member of a set of positions.
NthPosition(S, n) == CHOOSE p \in S : Cardinality({q \in S : q < p}) = n - 1

\* The n-th line of a set of lines, by position in the text.
NthSpan(S, n) == CHOOSE sp \in S : Cardinality({o \in S : o[1] < sp[1]}) = n - 1

\* The entry a non-blank line must turn into.
ExpectedEntry(t, sp) ==
    LET kept == KeptPositions(t, sp)
    IN  [n \in 1..Cardinality(kept) |->
            LET c == t[NthPosition(kept, n)]
            IN  IF c \in Whitespace THEN " " ELSE IF c = "A" THEN "a" ELSE c]

\* C6: normalize returns, for every text, a list whose entries are not
\* empty, neither start nor end with white space, hold no two white-space
\* characters in a row and no upper-case letter, and are the transformed
\* non-blank lines of the text in their order.
C6_Normalized ==
    pc \in {"normalized", "rejoined", "renormalized"} =>
        /\ \A n \in 1..Len(norm) :
             LET e == norm[n]
             IN  /\ e # <<>>
                 /\ e[1] \notin Whitespace
                 /\ e[Len(e)] \notin Whitespace
                 /\ \A p \in 1..(Len(e) - 1) :
                       ~(e[p] \in Whitespace /\ e[p + 1] \in Whitespace)
                 /\ \A p \in 1..Len(e) : e[p] \in Chars /\ e[p] # "A"
        /\ Len(norm) = Cardinality(NonBlankSpans(text))
        /\ \A n \in 1..Len(norm) :
             norm[n] = ExpectedEntry(text, NthSpan(NonBlankSpans(text), n))

C6_Witness ==
    /\ pc = "normalized"
    /\ Len(norm) = 2
    /\ norm[1] = <<"a", " ", "a">>
    /\ \E p \in 1..Len(text) : text[p] = "A"
    /\ \E p \in 1..Len(text) : text[p] = "\f"

\* C7: normalize is idempotent: normalizing the normalized lines, joined by
\* "\n", gives the same lines.
C7_Idempotent ==
    pc = "renormalized" => renorm = norm

C7_Witness ==
    /\ pc = "renormalized"
    /\ Len(norm) >= 2
    /\ rejoined # text
    /\ \E p \in 1..Len(text) : text[p] = "A"
    /\ renorm = norm
====
